---- MODULE Spec2Model ----
(***************************************************************************)
(* s3du: the bucket sizing engine.                                         *)
(*                                                                         *)
(* The S3 client (src/src/s3/client.rs) sizes a bucket by paginating the   *)
(* object, object-version, multipart-upload and part listings; the         *)
(* CloudWatch client (src/src/cloudwatch/client.rs, bucket_sizer.rs)       *)
(* paginates the metric catalogue and sums one data point per storage      *)
(* class.  Every `.send().await` is one step: the request is answered by   *)
(* the provider with an error or with one page.                            *)
(*                                                                         *)
(* Bucket discovery (src/src/s3/bucket_sizer.rs, cloudwatch/bucket_sizer.rs,*)
(* bucket_metrics.rs) and the driver du (src/src/main.rs) follow.          *)
(*                                                                         *)
(* The sizes the sizing functions are served stay far below 2^63, so no    *)
(* sum of theirs overflows; the section on du keeps the 64 bits of its     *)
(* total.                                                                  *)
(***************************************************************************)
EXTENDS Integers, Sequences, FiniteSets, TLC

\* ------------------------------------------------------------------ bounds

\* A listing has at most MaxPages pages: the provider announces no
\* continuation on page MaxPages.
MaxPages == 2

\* A page carries at most MaxPerPage items.
MaxPerPage == 2

\* A page of the multipart upload listing carries at most MaxUploads uploads.
MaxUploads == 1

\* A statistics query returns at most MaxPoints data points.
MaxPoints == 2

\* A given bucket holds at most MaxVersions object versions.
MaxVersions == 2

\* ----------------------------------------------------------- Option, Result

\* Option<T>: None is the empty tuple, Some(x) the one-element tuple.
None == <<>>

Some(x) == <<x>>

IsSome(o) == o # <<>>

\* anyhow::Result<u64>: Ok(v) or Err(e).
Ok(v) == [ok |-> TRUE, value |-> v, error |-> ""]

Err(e) == [ok |-> FALSE, value |-> 0, error |-> e]

\* No call has returned yet.
Pending == [ok |-> FALSE, value |-> 0, error |-> "pending"]

\* ------------------------------------------------------------------- state

VARIABLES
    entry,            \* the function the caller invoked
    object_versions,  \* Client::object_versions
    pc,               \* the function that runs next, "return" or "done"
    stack,            \* the callers waiting for a callee, innermost first
    rv,               \* the value being returned to the caller
    ret,              \* what the invoked function returned
    so,               \* size_objects: size
    mu,               \* size_multipart_uploads: markers, size, output, upload index
    sp,               \* size_parts: key, upload_id, marker, size
    ov,               \* size_object_versions: markers, size
    co,               \* size_current_objects: continuation token, size
    lm,               \* list_metrics: metrics, next_token
    bucket,           \* the Bucket handed to bucket_size
    gs,               \* get_metric_statistics: storage type index, outputs
    provider,         \* the S3 provider: any response, or a given bucket
    sizes,            \* test_size_objects: the size returned under each selector
    client,           \* Client of the S3 backend: bucket_name, region
    bk,               \* buckets of the S3 backend: bucket_names, index, buckets
    du,               \* du: the build, buckets, index, total_size, lines printed
    main,             \* main: the build, command line, environment, region, client
    clock,            \* the system clock, in seconds since the Unix epoch
    ledger            \* what the provider has served during this call

vars ==
    <<entry, object_versions, pc, stack, rv, ret, so, mu, sp, ov, co, lm, bucket, gs,
      provider, sizes, client, bk, du, main, clock, ledger>>

s3vars == <<object_versions, so, mu, sp, ov, co>>

cwvars == <<lm, bucket, gs>>

testvars == <<provider, sizes>>

drivervars == <<client, bk, du, main, clock>>

\* ------------------------------------------------------- provider's values

\* Sizes the provider may report for an object, a version or a part: an i64
\* that may be absent, negative or positive.
SizeValues == <<None, Some(-1), Some(1)>>

\* ObjectVersion { size, is_latest }.
Version(size, is_latest) == [size |-> size, is_latest |-> is_latest]

\* The object versions the provider may list: is_latest is an Option<bool>,
\* the size as above.
VersionValues ==
    << Version(Some(1), Some(TRUE)),  Version(Some(1), Some(FALSE)),
       Version(Some(1), None),        Version(None, Some(TRUE)),
       Version(Some(-1), Some(TRUE)), Version(Some(-1), Some(FALSE)) >>

\* Object { size }, Part { size }.
SizedItem(i) == [size |-> SizeValues[i]]

ObjectVersion(i) == VersionValues[i]

\* The item lists of one page, n kinds of item, up to the order of the items
\* (every page is summed, and a sum does not depend on the order).
ItemLists(n) ==
    UNION { { s \in [1..k -> 1..n] : \A i \in 1..(k - 1) : s[i] <= s[i + 1] }
            : k \in 0..MaxPerPage }

ObjectPages == { [i \in 1..Len(s) |-> SizedItem(s[i])] : s \in ItemLists(Len(SizeValues)) }

PartPages == ObjectPages

VersionPages ==
    { [i \in 1..Len(s) |-> ObjectVersion(s[i])]
      : s \in ItemLists(Len(VersionValues)) }

\* The page a cursor asks for: the first page without a cursor.
Ordinal(cursor) == IF IsSome(cursor) THEN cursor[1] ELSE 1

\* How a page may end: no continuation (the flag absent or false), or, before
\* page MaxPages, the truncated flag with the cursor of the next page.
Continuations(cursor) ==
    { [is_truncated |-> None, next |-> None],
      [is_truncated |-> Some(FALSE), next |-> None] }
    \cup
    ( IF Ordinal(cursor) < MaxPages
        THEN { [is_truncated |-> Some(TRUE), next |-> Some(Ordinal(cursor) + 1)] }
        ELSE {} )

\* Page k of a listing the provider serves n items at a time, and how that
\* page ends.
Page(items, k, n) ==
    SubSeq(items, (k - 1) * n + 1, IF k * n < Len(items) THEN k * n ELSE Len(items))

PageEnd(items, k, n) ==
    IF k * n < Len(items)
      THEN [is_truncated |-> Some(TRUE), next |-> Some(k + 1)]
      ELSE [is_truncated |-> Some(FALSE), next |-> None]

\* The objects of a given bucket: its versions flagged latest.
CurrentObjects(versions) ==
    LET latest == SelectSeq(versions, LAMBDA v : v.is_latest = Some(TRUE))
    IN  [i \in 1..Len(latest) |-> [size |-> latest[i].size]]

\* ListObjectsV2Output for a request with the given continuation token.
ListObjectsV2Outputs(continuation_token) ==
    IF provider.fixed
      THEN LET objects == CurrentObjects(provider.versions)
               k       == Ordinal(continuation_token)
               t       == PageEnd(objects, k, provider.page_size)
           IN  { [ contents                |-> Page(objects, k, provider.page_size),
                   is_truncated            |-> t.is_truncated,
                   next_continuation_token |-> t.next ] }
      ELSE { [ contents                |-> c,
               is_truncated            |-> t.is_truncated,
               next_continuation_token |-> t.next ]
             : c \in ObjectPages, t \in Continuations(continuation_token) }

\* ListObjectVersionsOutput for a request with the given markers.
ListObjectVersionsOutputs(key_marker, version_id_marker) ==
    IF provider.fixed
      THEN LET k == Ordinal(key_marker)
               t == PageEnd(provider.versions, k, provider.page_size)
           IN  { [ versions               |-> Page(provider.versions, k, provider.page_size),
                   is_truncated           |-> t.is_truncated,
                   next_key_marker        |-> t.next,
                   next_version_id_marker |-> t.next ] }
      ELSE { [ versions               |-> v,
               is_truncated           |-> t.is_truncated,
               next_key_marker        |-> t.next,
               next_version_id_marker |-> t.next ]
             : v \in VersionPages, t \in Continuations(key_marker) }

\* ListPartsOutput for a request with the given part number marker.
ListPartsOutputs(key, upload_id, part_number_marker) ==
    IF provider.fixed
      THEN LET parts == provider.uploads[upload_id]
               k     == Ordinal(part_number_marker)
               t     == PageEnd(parts, k, provider.page_size)
           IN  { [ parts                   |-> Page(parts, k, provider.page_size),
                   is_truncated            |-> t.is_truncated,
                   next_part_number_marker |-> t.next ] }
      ELSE { [ parts                   |-> p,
               is_truncated            |-> t.is_truncated,
               next_part_number_marker |-> t.next ]
             : p \in PartPages, t \in Continuations(part_number_marker) }

\* ListMultipartUploadsOutput: the uploads of page k are named (k, 1..n); the
\* uploads of a given bucket are named (j, j).
ListMultipartUploadsOutputs(key_marker, upload_id_marker) ==
    IF provider.fixed
      THEN LET uploads == [j \in 1..Len(provider.uploads) |-> [key |-> j, upload_id |-> j]]
               k       == Ordinal(key_marker)
               t       == PageEnd(uploads, k, provider.page_size)
           IN  { [ uploads               |-> Page(uploads, k, provider.page_size),
                   is_truncated          |-> t.is_truncated,
                   next_key_marker       |-> t.next,
                   next_upload_id_marker |-> t.next ] }
      ELSE { [ uploads               |-> [i \in 1..n |->
                                            [ key       |-> Ordinal(key_marker),
                                              upload_id |-> i ]],
               is_truncated          |-> t.is_truncated,
               next_key_marker       |-> t.next,
               next_upload_id_marker |-> t.next ]
             : n \in 0..MaxUploads, t \in Continuations(key_marker) }

\* The provider that may answer a request with any page.
AnyResponse == [fixed |-> FALSE, page_size |-> 1, versions |-> <<>>, uploads |-> <<>>]

\* The version lists of a given bucket: every version carries its is_latest
\* flag.
BucketVersions ==
    LET flagged == SelectSeq(VersionValues, LAMBDA v : v.is_latest # None)
    IN  UNION { { [i \in 1..k |-> flagged[s[i]]] : s \in [1..k -> 1..Len(flagged)] }
                : k \in 0..MaxVersions }

\* The in-progress uploads of a given bucket, each the list of its parts: no
\* upload, or uploads of no, one and two parts.
BucketUploads ==
    { <<>>,
      << <<>> >>,
      << <<SizedItem(3)>> >>,
      << <<SizedItem(3), SizedItem(3)>>, <<>> >>,
      << <<SizedItem(2)>> >> }

\* A provider that serves a given bucket, page_size items a page.
GivenBuckets ==
    { [fixed |-> TRUE, page_size |-> n, versions |-> v, uploads |-> u]
      : n \in 1..MaxPerPage, v \in BucketVersions, u \in BucketUploads }

\* Metric { dimensions: [BucketName, StorageType] } of the AWS/S3
\* BucketSizeBytes catalogue.
Metric(bucket_name, storage_type) ==
    [ dimensions |-> << [name |-> "BucketName",  value |-> bucket_name],
                        [name |-> "StorageType", value |-> storage_type] >> ]

MetricValues ==
    << Metric("a-bucket-name", "StandardStorage"),
       Metric("another-bucket-name", "StandardStorage"),
       Metric("a-bucket-name", "StandardIAStorage") >>

\* The metric lists of one page, in every order.
MetricPages ==
    UNION { { [i \in 1..k |-> MetricValues[s[i]]] : s \in [1..k -> 1..Len(MetricValues)] }
            : k \in 0..MaxPerPage }

\* ListMetricsOutput for a request with the given next token.
ListMetricsOutputs(next_token) ==
    { [metrics |-> m, next_token |-> t]
      : m \in MetricPages,
        t \in {None} \cup ( IF Ordinal(next_token) < MaxPages
                              THEN {Some(Ordinal(next_token) + 1)}
                              ELSE {} ) }

\* An f64 average: whole + 1/2 if half, in bytes.
F64(whole, half) == [whole |-> whole, half |-> half]

\* Averages the provider may report: -1.0, 50.5 and 100.0.
AverageValues == <<F64(-1, FALSE), F64(50, TRUE), F64(100, FALSE)>>

\* Timestamps of data points.
TimestampValues == <<1, 2>>

\* Datapoint { timestamp, average }.  The timestamp and, for the Average
\* statistic that is requested, the average are always present.
Datapoint(i) ==
    [ timestamp |-> TimestampValues[((i - 1) % Len(TimestampValues)) + 1],
      average   |-> AverageValues[((i - 1) \div Len(TimestampValues)) + 1] ]

\* GetMetricStatisticsOutput { datapoints: Option<Vec<Datapoint>> }: no list,
\* or a list of at most MaxPoints data points in any order.
GetMetricStatisticsOutputs ==
    { [datapoints |-> None] }
    \cup
    UNION { { [datapoints |-> Some([i \in 1..k |-> Datapoint(s[i])])]
              : s \in [1..k -> 1..(Len(TimestampValues) * Len(AverageValues))] }
            : k \in 0..MaxPoints }

\* Storage types of the bucket metrics.
StorageTypes == <<"StandardStorage", "StandardIAStorage">>

\* Bucket { name, region, storage_types } handed to bucket_size.
Buckets ==
    { [name |-> "a-bucket-name", region |-> None, storage_types |-> st]
      : st \in { None, Some(<<>>), Some(SubSeq(StorageTypes, 1, 1)), Some(StorageTypes) } }

\* ------------------------------------------------------------ S3 client code

ObjectVersions == {"All", "Current", "Multipart", "NonCurrent"}

\* Iterator::sum::<i64>().
RECURSIVE SumI64(_)
SumI64(s) == IF s = <<>> THEN 0 ELSE Head(s) + SumI64(Tail(s))

\* .filter_map(Object::size) / .filter_map(Part::size): the sizes present.
RECURSIVE FilterMapSize(_)
FilterMapSize(items) ==
    IF items = <<>> THEN <<>>
    ELSE ( IF IsSome(Head(items).size) THEN <<Head(items).size[1]>> ELSE <<>> )
         \o FilterMapSize(Tail(items))

\* v.size().unwrap_or(0)
UnwrapOr0(size) == IF IsSome(size) THEN size[1] ELSE 0

\* Not the closure of size_object_versions: every version is counted,
\* whatever its flag.
VersionSizeOfAnyVersion(v, selector) == UnwrapOr0(v.size)

\* The closure of size_object_versions: the size counted for version v when
\* self.object_versions is the given selector.
VersionSizeOf(v, selector) ==
    CASE selector = "All"        -> UnwrapOr0(v.size)
      [] selector = "Current"    ->
            IF v.is_latest = Some(TRUE) THEN UnwrapOr0(v.size) ELSE 0
      [] selector = "NonCurrent" ->
            IF v.is_latest = Some(TRUE) THEN 0 ELSE UnwrapOr0(v.size)

\* output.versions().par_iter().map(..).sum::<i64>()
VersionSize(versions, selector) ==
    SumI64([i \in 1..Len(versions) |-> VersionSizeOf(versions[i], selector)])

\* Not the code: only the first object of a page is counted.
ObjectSizeOfFirst(contents) ==
    IF contents = <<>> THEN 0 ELSE SumI64(FilterMapSize(<<Head(contents)>>))

\* output.contents().par_iter().filter_map(Object::size).sum::<i64>()
ObjectSize(contents) == SumI64(FilterMapSize(contents))

\* Not the code: only the first part of a page is counted.
PartSizesOfFirst(parts) ==
    IF parts = <<>> THEN 0 ELSE SumI64(FilterMapSize(<<Head(parts)>>))

\* output.parts().par_iter().filter_map(Part::size).sum::<i64>()
PartSizes(parts) == SumI64(FilterMapSize(parts))

\* Not the code: a conversion that clamps a negative amount to zero.
TryFromI64Clamped(n, what) == Ok(IF n < 0 THEN 0 ELSE n)

\* u64::try_from(n).context(what)
TryFromI64(n, what) == IF n < 0 THEN Err(what) ELSE Ok(n)

\* Not the code: `size = n`, which forgets the pass before.
AddAssignOverwrites(size, n) == n

\* `size += n` of size_objects.
AddAssign(size, n) == size + n

\* Not the code: a listing is taken to be truncated unless the flag is false,
\* so also when the flag is absent.
IsTruncatedUnlessFalse(is_truncated) == is_truncated # Some(FALSE)

\* Not the code: a listing that is never taken to be truncated.
IsTruncatedNever(is_truncated) == FALSE

\* matches!(output.is_truncated(), Some(true))
IsTruncated(is_truncated) == is_truncated = Some(TRUE)

\* Not the code: a failed request that ends the function with what it has.
SendFailedPartial(size) == Ok(size)

\* `.send().await?` on a failed request: the error leaves the function,
\* whatever size it had accumulated.
SendFailed(size) == Err("request")

\* ---------------------------------------------------- CloudWatch client code

\* Not the code: the comparison the other way round, oldest first.
RECURSIVE InsertByTimestampAscending(_, _)
InsertByTimestampAscending(x, sorted) ==
    IF sorted = <<>> THEN <<x>>
    ELSE IF Head(sorted).timestamp <= x.timestamp
      THEN <<Head(sorted)>> \o InsertByTimestampAscending(x, Tail(sorted))
    ELSE <<x>> \o sorted

\* datapoints.sort_by(|a, b| b_timestamp.cmp(&a_timestamp)): a stable sort,
\* latest first; x is placed behind the data points that are not older.
RECURSIVE InsertByTimestamp(_, _)
InsertByTimestamp(x, sorted) ==
    IF sorted = <<>> THEN <<x>>
    ELSE IF Head(sorted).timestamp >= x.timestamp
      THEN <<Head(sorted)>> \o InsertByTimestamp(x, Tail(sorted))
    ELSE <<x>> \o sorted

RECURSIVE SortByTimestamp(_)
SortByTimestamp(datapoints) ==
    IF datapoints = <<>> THEN <<>>
    ELSE InsertByTimestamp(datapoints[Len(datapoints)],
                           SortByTimestamp(SubSeq(datapoints, 1, Len(datapoints) - 1)))

\* Not the code: a conversion that rounds a half up.
AsUsizeRounded(bytes) ==
    IF bytes.whole < 0 THEN 0 ELSE bytes.whole + (IF bytes.half THEN 1 ELSE 0)

\* `bytes as usize`: the fraction is dropped and a negative value becomes 0.
AsUsize(bytes) == IF bytes.whole < 0 THEN 0 ELSE bytes.whole

\* datapoints.is_empty() of bucket_size: an empty list is an error.
IsEmpty(datapoints) == datapoints = <<>>

\* The `for stats in metric_statistics` loop of bucket_size, from the given
\* size on.
RECURSIVE ForStats(_, _)
ForStats(metric_statistics, size) ==
    IF metric_statistics = <<>> THEN Ok(size)
    ELSE LET stats == Head(metric_statistics)
         IN  IF stats.datapoints = None
               THEN ForStats(Tail(metric_statistics), size)
             ELSE IF IsEmpty(stats.datapoints[1])
               THEN Err("Failed to fetch any CloudWatch datapoints!")
             ELSE LET datapoints == SortByTimestamp(stats.datapoints[1])
                      datapoint  == datapoints[1]
                      bytes      == datapoint.average
                  IN  ForStats(Tail(metric_statistics), size + AsUsize(bytes))

\* ------------------------------------------------------- what was served

\* The sum of the sizes present on a list of items (an absent size is no
\* bytes).
RECURSIVE TotalSize(_)
TotalSize(items) ==
    IF items = <<>> THEN 0
    ELSE ( IF Head(items).size = None THEN 0 ELSE Head(items).size[1] )
         + TotalSize(Tail(items))

\* The versions flagged latest, and the others.
FlaggedLatest(versions) == SelectSeq(versions, LAMBDA v : v.is_latest = Some(TRUE))

NotFlaggedLatest(versions) == SelectSeq(versions, LAMBDA v : v.is_latest # Some(TRUE))

\* The versions a selector counts.
Counted(versions, selector) ==
    CASE selector = "All"        -> versions
      [] selector = "Current"    -> FlaggedLatest(versions)
      [] selector = "NonCurrent" -> NotFlaggedLatest(versions)

\* A page announces a continuation.
AnnouncesMore(is_truncated) == is_truncated = <<TRUE>>

\* The listings that are paginated.
Paginated == {"objects", "versions", "uploads", "parts", "metrics"}

\* The cursors of the first request of a listing: none of the one or two it
\* has.
NoCursors(listing) ==
    IF listing \in {"versions", "uploads"} THEN <<None, None>> ELSE <<None>>

\* The provider's account of what it has served during the call: the sizes
\* present on the objects and parts listed, on the versions listed that are
\* flagged latest and on those that are not; the uploads listed whose parts
\* are not yet listed to the end, and whether an upload turned out to have no
\* part; the metrics and statistics returned; the listings that were asked
\* for, and those whose last page announced a continuation; whether a request
\* failed, and whether the sizes the client counts on some page summed below
\* zero.
NewLedger ==
    [ objects  |-> 0,
      latest   |-> 0,
      other    |-> 0,
      parts    |-> 0,
      unsized  |-> 0,
      noparts  |-> TRUE,   \* the upload being sized has listed no part so far
      empty    |-> FALSE,  \* some upload had its parts listed to the end: none
      resumed  |-> FALSE,  \* a part was listed after an upload had none
      metrics  |-> <<>>,   \* the metrics listed, page after page
      stats    |-> <<>>,   \* the statistics returned, query after query
      queries  |-> <<>>,   \* the statistics queries sent, one after the other
      listed   |-> <<>>,   \* the buckets listed
      located  |-> <<>>,   \* the location constraint returned, candidate after candidate
      probed   |-> <<>>,   \* the status of the access probe, candidate after candidate
      sized    |-> <<>>,   \* the size returned to du, bucket after bucket
      asked    |-> {},
      more     |-> {},
      hollow   |-> {},     \* listings that served a page of no item, more announced
      late     |-> {},     \* listings that served items after such a page
      overrun  |-> FALSE,  \* a page was requested of a listing that was over
      failed   |-> FALSE,  \* a request has failed
      pursued  |-> FALSE,  \* a request was sent after one had failed
      handed   |-> [listing \in Paginated |-> NoCursors(listing)],
                           \* the cursors the last page of each listing returned
      strayed  |-> FALSE,  \* a request carried other cursors than those
      negative |-> FALSE ]

\* The listing is over: its last page announced no continuation (for the
\* parts, which are listed upload by upload: of every upload listed so far).
Over(l, listing) ==
    /\ listing \in Paginated
    /\ IF listing = "parts"
         THEN l.unsized = 0
         ELSE listing \in l.asked /\ listing \notin l.more

\* A request for a page of the listing failed.
Refused(l, listing) ==
    [l EXCEPT !.asked   = @ \cup {listing},
              !.failed  = TRUE,
              !.pursued = @ \/ l.failed,
              !.overrun = @ \/ Over(l, listing)]

\* A page of the listing was served, announcing a continuation or not.
Served(l, listing, more) ==
    [l EXCEPT !.asked   = @ \cup {listing},
              !.more    = IF more THEN @ \cup {listing} ELSE @ \ {listing},
              !.pursued = @ \/ l.failed,
              !.overrun = @ \/ Over(l, listing)]

\* A request of a paginated listing was sent with the given cursors and
\* failed: no cursor is handed out.
RefusedAt(l, listing, cursors) ==
    [Refused(l, listing) EXCEPT
       !.strayed = @ \/ cursors # l.handed[listing],
       !.handed  = [@ EXCEPT ![listing] = NoCursors(listing)]]

\* A page of n items of a paginated listing was served.
ServedItems(l, listing, n, more) ==
    [Served(l, listing, more) EXCEPT
       !.hollow = IF n = 0 /\ more THEN @ \cup {listing} ELSE @,
       !.late   = IF n > 0 /\ listing \in l.hollow THEN @ \cup {listing} ELSE @]

\* A page of n items of a paginated listing was served to a request sent
\* with the given cursors, and returned the cursors next.
ServedPage(l, listing, cursors, n, more, next) ==
    [ServedItems(l, listing, n, more) EXCEPT
       !.strayed = @ \/ cursors # l.handed[listing],
       !.handed  = [@ EXCEPT ![listing] = next]]

\* ------------------------------------------------------------------ frames

\* An output that has been consumed.
NoOutput ==
    [uploads |-> <<>>, is_truncated |-> None,
     next_key_marker |-> None, next_upload_id_marker |-> None]

SizeObjectsFrame == [size |-> 0, pass |-> "none"]

SizeMultipartUploadsFrame ==
    [key_marker |-> None, upload_id_marker |-> None, size |-> 0,
     output |-> NoOutput, i |-> 0]

SizePartsFrame(key, upload_id) ==
    [key |-> key, upload_id |-> upload_id, part_number_marker |-> None, size |-> 0]

\* No call of size_parts is in progress.
NoSizePartsFrame == SizePartsFrame(0, 0)

SizeObjectVersionsFrame ==
    [next_key_marker |-> None, next_version_id_marker |-> None, size |-> 0]

SizeCurrentObjectsFrame == [continuation_token |-> None, size |-> 0]

ListMetricsFrame == [metrics |-> <<>>, next_token |-> None]

GetMetricStatisticsFrame == [i |-> 1, outputs |-> <<>>]

\* What SystemTime::now() may read: the clock of a run, in seconds since the
\* Unix epoch.  A run that issues no statistics query reads the first.
Clocks == <<1793600000, 172800>>

\* test_size_objects has run under no selector.
NoSizes == [o \in ObjectVersions |-> Pending]

\* The Client that mock_client builds: no bucket name, region eu-west-1.
MockClient == [bucket_name |-> None, region |-> "eu-west-1"]

\* buckets of the S3 backend: the candidate names, the index of the candidate
\* the loop is at, its region once resolved, and the buckets pushed so far.
BucketsFrame == [bucket_names |-> <<>>, i |-> 0, region |-> "", buckets |-> <<>>]

\* du: whether the build checks integer overflow (debug_assertions), the
\* buckets, the index of the bucket the loop is at, total_size and the lines
\* printed.
DuFrame ==
    [debug_assertions |-> FALSE, buckets |-> <<>>, i |-> 0, total_size |-> 0,
     printed |-> <<>>]

\* main has not run: a build with both features, nothing on the command line
\* and nothing in the environment.
MainFrame ==
    [features |-> {"cloudwatch", "s3"},
     argv |-> [region |-> None, endpoint |-> None, mode |-> None],
     env |-> [AWS_REGION |-> None, AWS_DEFAULT_REGION |-> None],
     region |-> None, mode |-> None, stderr |-> <<>>, exit |-> None,
     client |-> None]

\* bucket_size has not been handed a bucket.
NoBucket == [name |-> "", region |-> None, storage_types |-> None]

\* The calls the model makes: the paginated functions of the two clients,
\* size_object_versions under each selector it serves.
Calls ==
    ( {"size_object_versions"} \X {"All", "Current", "NonCurrent"} )
    \cup ( {"size_current_objects", "size_multipart_uploads", "size_parts",
             "list_metrics"} \X {"Current"} )

Init ==
    /\ \E c \in Calls : entry = c[1] /\ object_versions = c[2]
    /\ pc = entry
    /\ stack = <<>>
    /\ rv = Pending
    /\ ret = Pending
    /\ so = SizeObjectsFrame
    /\ mu = SizeMultipartUploadsFrame
    /\ sp = IF entry = "size_parts" THEN SizePartsFrame(1, 1) ELSE NoSizePartsFrame
    /\ ov = SizeObjectVersionsFrame
    /\ co = SizeCurrentObjectsFrame
    /\ lm = ListMetricsFrame
    /\ bucket = NoBucket
    /\ gs = GetMetricStatisticsFrame
    /\ provider = AnyResponse
    /\ sizes = NoSizes
    /\ client = MockClient
    /\ bk = BucketsFrame
    /\ du = DuFrame
    /\ main = MainFrame
    /\ clock = Head(Clocks)
    /\ ledger = IF entry = "size_parts" THEN [NewLedger EXCEPT !.unsized = 1] ELSE NewLedger

\* Not the code: the cursor of the output is dropped.
NextMarkerDropped(next) == None

\* output.next_continuation_token().map(ToOwned::to_owned), and the same of
\* the markers of the other listings: the cursor of the output, owned.
NextMarker(next) == next

\* ----------------------------------------------------- size_current_objects

SizeCurrentObjects ==
    /\ pc = "size_current_objects"
    /\ UNCHANGED <<entry, object_versions, stack, ret, so, mu, sp, ov, cwvars, testvars, drivervars>>
    /\ \/ /\ rv' = SendFailed(co.size)
          /\ pc' = "return"
          /\ co' = SizeCurrentObjectsFrame
          /\ ledger' = RefusedAt(ledger, "objects", <<co.continuation_token>>)
       \/ \E output \in ListObjectsV2Outputs(co.continuation_token) :
            LET object_size == ObjectSize(output.contents)
                converted   == TryFromI64(object_size, "object size")
                size        == co.size + converted.value
            IN  /\ ledger' = [ServedPage(ledger, "objects", <<co.continuation_token>>,
                                          Len(output.contents),
                                          AnnouncesMore(output.is_truncated),
                                          <<output.next_continuation_token>>)
                               EXCEPT
                                !.objects  = @ + TotalSize(output.contents),
                                !.negative = @ \/ TotalSize(output.contents) < 0]
                /\ IF ~converted.ok
                     THEN /\ rv' = converted
                          /\ pc' = "return"
                          /\ co' = SizeCurrentObjectsFrame
                   ELSE IF IsTruncated(output.is_truncated)
                     THEN /\ co' = [continuation_token |-> NextMarker(output.next_continuation_token),
                                    size               |-> size]
                          /\ UNCHANGED <<pc, rv>>
                   ELSE   /\ co' = SizeCurrentObjectsFrame
                          /\ rv' = Ok(size)
                          /\ pc' = "return"

\* ----------------------------------------------------- size_object_versions

SizeObjectVersions ==
    /\ pc = "size_object_versions"
    /\ UNCHANGED <<entry, object_versions, stack, ret, so, mu, sp, co, cwvars, testvars, drivervars>>
    /\ \/ /\ rv' = SendFailed(ov.size)
          /\ pc' = "return"
          /\ ov' = SizeObjectVersionsFrame
          /\ ledger' = RefusedAt(ledger, "versions",
                                  <<ov.next_key_marker, ov.next_version_id_marker>>)
       \/ \E output \in ListObjectVersionsOutputs(ov.next_key_marker,
                                                  ov.next_version_id_marker) :
            LET version_size == VersionSize(output.versions, object_versions)
                converted    == TryFromI64(version_size, "version size")
                size         == ov.size + converted.value
            IN  /\ ledger' = [ServedPage(ledger, "versions",
                                          <<ov.next_key_marker, ov.next_version_id_marker>>,
                                          Len(output.versions),
                                          AnnouncesMore(output.is_truncated),
                                          <<output.next_key_marker,
                                            output.next_version_id_marker>>)
                               EXCEPT
                                !.latest   = @ + TotalSize(FlaggedLatest(output.versions)),
                                !.other    = @ + TotalSize(NotFlaggedLatest(output.versions)),
                                !.negative = @ \/ TotalSize(Counted(output.versions,
                                                                    object_versions)) < 0]
                /\ IF ~converted.ok
                     THEN /\ rv' = converted
                          /\ pc' = "return"
                          /\ ov' = SizeObjectVersionsFrame
                   ELSE IF IsTruncated(output.is_truncated)
                     THEN /\ ov' = [next_key_marker        |-> NextMarker(output.next_key_marker),
                                    next_version_id_marker |->
                                        NextMarker(output.next_version_id_marker),
                                    size                   |-> size]
                          /\ UNCHANGED <<pc, rv>>
                   ELSE   /\ ov' = SizeObjectVersionsFrame
                          /\ rv' = Ok(size)
                          /\ pc' = "return"

\* --------------------------------------------------------------- size_parts

SizeParts ==
    /\ pc = "size_parts"
    /\ UNCHANGED <<entry, object_versions, stack, ret, so, mu, ov, co, cwvars, testvars, drivervars>>
    /\ \/ /\ rv' = SendFailed(sp.size)
          /\ pc' = "return"
          /\ sp' = NoSizePartsFrame
          /\ ledger' = RefusedAt(ledger, "parts", <<sp.part_number_marker>>)
       \/ \E output \in ListPartsOutputs(sp.key, sp.upload_id, sp.part_number_marker) :
            LET part_sizes == PartSizes(output.parts)
                converted  == TryFromI64(part_sizes, "part sizes")
                size       == sp.size + converted.value
                last       == /\ TotalSize(output.parts) >= 0
                              /\ ~AnnouncesMore(output.is_truncated)
                noparts    == ledger.noparts /\ output.parts = <<>>
            IN  /\ ledger' = [ServedPage(ledger, "parts", <<sp.part_number_marker>>,
                                          Len(output.parts),
                                          AnnouncesMore(output.is_truncated),
                                          <<output.next_part_number_marker>>)
                               EXCEPT
                                !.parts    = @ + TotalSize(output.parts),
                                !.negative = @ \/ TotalSize(output.parts) < 0,
                                !.noparts  = IF last THEN TRUE ELSE noparts,
                                !.unsized  = IF last THEN @ - 1 ELSE @,
                                !.empty    = @ \/ (last /\ noparts),
                                !.resumed  = @ \/ (ledger.empty /\ output.parts # <<>>)]
                /\ IF ~converted.ok
                     THEN /\ rv' = converted
                          /\ pc' = "return"
                          /\ sp' = NoSizePartsFrame
                   ELSE IF IsTruncated(output.is_truncated)
                     THEN /\ sp' = [sp EXCEPT
                                      !.part_number_marker =
                                          NextMarker(output.next_part_number_marker),
                                      !.size               = size]
                          /\ UNCHANGED <<pc, rv>>
                   ELSE   /\ sp' = NoSizePartsFrame
                          /\ rv' = Ok(size)
                          /\ pc' = "return"

\* --------------------------------------------------- size_multipart_uploads

\* The `for upload in output.uploads()` loop from upload m.i on, and what
\* follows it: size_parts is called for the next upload; after the last one
\* the markers are set for the next page, or the size is returned.
ForUploads(m, callers) ==
    IF m.i <= Len(m.output.uploads)
      THEN /\ mu' = m
           /\ sp' = SizePartsFrame(m.output.uploads[m.i].key,
                                   m.output.uploads[m.i].upload_id)
           /\ stack' = <<"size_multipart_uploads">> \o callers
           /\ pc' = "size_parts"
           /\ rv' = rv
    ELSE IF IsTruncated(m.output.is_truncated)
      THEN /\ mu' = [m EXCEPT !.key_marker       = NextMarker(m.output.next_key_marker),
                              !.upload_id_marker = NextMarker(m.output.next_upload_id_marker),
                              !.output           = NoOutput,
                              !.i                = 0]
           /\ stack' = callers
           /\ pc' = "size_multipart_uploads"
           /\ UNCHANGED <<sp, rv>>
    ELSE   /\ mu' = SizeMultipartUploadsFrame
           /\ stack' = callers
           /\ pc' = "return"
           /\ rv' = Ok(m.size)
           /\ sp' = sp

SizeMultipartUploads ==
    /\ pc = "size_multipart_uploads"
    /\ UNCHANGED <<entry, object_versions, ret, so, ov, co, cwvars, testvars, drivervars>>
    /\ \/ /\ rv' = SendFailed(mu.size)
          /\ pc' = "return"
          /\ ledger' = RefusedAt(ledger, "uploads", <<mu.key_marker, mu.upload_id_marker>>)
          /\ mu' = SizeMultipartUploadsFrame
          /\ UNCHANGED <<sp, stack>>
       \/ \E output \in ListMultipartUploadsOutputs(mu.key_marker, mu.upload_id_marker) :
            /\ ledger' = [ServedPage(ledger, "uploads",
                                      <<mu.key_marker, mu.upload_id_marker>>,
                                      Len(output.uploads),
                                      AnnouncesMore(output.is_truncated),
                                      <<output.next_key_marker,
                                        output.next_upload_id_marker>>)
                           EXCEPT !.unsized = @ + Len(output.uploads)]
            /\ ForUploads([mu EXCEPT !.output = output, !.i = 1], stack)

\* size_parts has returned to size_multipart_uploads: `size += ..?`, then the
\* next upload.
SizeMultipartUploadsResume ==
    /\ pc = "return"
    /\ stack # <<>>
    /\ Head(stack) = "size_multipart_uploads"
    /\ UNCHANGED <<entry, object_versions, ret, so, ov, co, cwvars, testvars, drivervars, ledger>>
    /\ IF ~rv.ok
         THEN /\ stack' = Tail(stack)
              /\ mu' = SizeMultipartUploadsFrame
              /\ UNCHANGED <<pc, rv, sp>>
         ELSE ForUploads([mu EXCEPT !.size = @ + rv.value, !.i = @ + 1], Tail(stack))

\* ------------------------------------------------------------- size_objects

SizeObjects ==
    /\ pc = "size_objects"
    /\ stack' = <<"size_objects">> \o stack
    /\ UNCHANGED <<entry, object_versions, rv, ret, cwvars, testvars, drivervars, ledger>>
    /\ CASE object_versions = "All" ->
              /\ so' = [size |-> 0, pass |-> "size_multipart_uploads"]
              /\ mu' = SizeMultipartUploadsFrame
              /\ pc' = "size_multipart_uploads"
              /\ UNCHANGED <<sp, ov, co>>
         [] object_versions = "Current" ->
              /\ so' = [size |-> 0, pass |-> "size_current_objects"]
              /\ co' = SizeCurrentObjectsFrame
              /\ pc' = "size_current_objects"
              /\ UNCHANGED <<mu, sp, ov>>
         [] object_versions = "Multipart" ->
              /\ so' = [size |-> 0, pass |-> "size_multipart_uploads"]
              /\ mu' = SizeMultipartUploadsFrame
              /\ pc' = "size_multipart_uploads"
              /\ UNCHANGED <<sp, ov, co>>
         [] object_versions = "NonCurrent" ->
              /\ so' = [size |-> 0, pass |-> "size_object_versions"]
              /\ ov' = SizeObjectVersionsFrame
              /\ pc' = "size_object_versions"
              /\ UNCHANGED <<mu, sp, co>>

\* A sizing pass has returned to size_objects.  Under All the multipart pass
\* is followed by the version pass and the two sizes are added; an error of
\* either (`?`) is returned as it is.  Every other selector returns what its
\* one pass returned.
SizeObjectsResume ==
    /\ pc = "return"
    /\ stack # <<>>
    /\ Head(stack) = "size_objects"
    /\ UNCHANGED <<entry, object_versions, ret, mu, sp, co, cwvars, testvars, drivervars, ledger>>
    /\ IF object_versions = "All" /\ rv.ok
         THEN IF so.pass = "size_multipart_uploads"
                THEN /\ so' = [size |-> AddAssign(so.size, rv.value),
                               pass |-> "size_object_versions"]
                     /\ ov' = SizeObjectVersionsFrame
                     /\ pc' = "size_object_versions"
                     /\ UNCHANGED <<stack, rv>>
                ELSE /\ so' = SizeObjectsFrame
                     /\ rv' = Ok(AddAssign(so.size, rv.value))
                     /\ stack' = Tail(stack)
                     /\ UNCHANGED <<pc, ov>>
         ELSE /\ stack' = Tail(stack)
              /\ so' = SizeObjectsFrame
              /\ UNCHANGED <<pc, rv, ov>>

\* ------------------------------------------------------------- list_metrics

ListMetrics ==
    /\ pc = "list_metrics"
    /\ UNCHANGED <<entry, stack, ret, s3vars, bucket, gs, testvars, drivervars>>
    /\ \/ /\ rv' = SendFailed(lm.metrics)
          /\ pc' = "return"
          /\ lm' = ListMetricsFrame
          /\ ledger' = RefusedAt(ledger, "metrics", <<lm.next_token>>)
       \/ \E output \in ListMetricsOutputs(lm.next_token) :
            LET metrics == lm.metrics \o output.metrics
            IN  /\ ledger' = [ServedPage(ledger, "metrics", <<lm.next_token>>,
                                          Len(output.metrics),
                                          output.next_token # None,
                                          <<output.next_token>>)
                               EXCEPT !.metrics = Append(@, output.metrics)]
                /\ IF IsSome(output.next_token)
                     THEN /\ lm' = [metrics |-> metrics, next_token |-> output.next_token]
                          /\ UNCHANGED <<pc, rv>>
                     ELSE /\ lm' = ListMetricsFrame
                          /\ rv' = Ok(metrics)
                          /\ pc' = "return"

\* ---------------------------------------------------- get_metric_statistics

\* bucket_size calls get_metric_statistics for its bucket.
BucketSize ==
    /\ pc = "bucket_size"
    /\ stack' = <<"bucket_size">> \o stack
    /\ gs' = GetMetricStatisticsFrame
    /\ pc' = "get_metric_statistics"
    /\ UNCHANGED <<entry, rv, ret, s3vars, lm, bucket, testvars, drivervars, ledger>>

\* bucket.storage_types, or an empty Vec.
StorageTypesOf(b) == IF IsSome(b.storage_types) THEN b.storage_types[1] ELSE <<>>

\* const ONE_DAY: Duration = Duration::from_secs(86_400), in seconds.
ONE_DAY == 86400

\* DateTime::from(now - (ONE_DAY * 2)).
StartTime(now) == now - (ONE_DAY * 2)

\* i32::try_from(n).context(what).
TryFromU64ToI32(n, what) == IF n <= 2147483647 THEN Ok(n) ELSE Err(what)

\* The query of a storage type: the window, the period and the dimensions.
GetMetricStatisticsInput(now, start_time, period, name, storage_type) ==
    [end_time |-> now, start_time |-> start_time, period |-> period,
     BucketName |-> name, StorageType |-> storage_type]

\* One turn of `for storage_type in storage_types`: the query is sent and its
\* output pushed; after the last storage type the outputs are returned.  The
\* clock is read once, before the loop, and does not move during the call.
GetMetricStatistics ==
    /\ pc = "get_metric_statistics"
    /\ UNCHANGED <<entry, stack, ret, s3vars, lm, bucket, testvars, drivervars>>
    /\ LET now == clock
           start_time == StartTime(now)
           period == TryFromU64ToI32(ONE_DAY, "period")
       IN  IF ~period.ok
             THEN /\ rv' = period
                  /\ pc' = "return"
                  /\ gs' = GetMetricStatisticsFrame
                  /\ ledger' = ledger
           ELSE IF gs.i > Len(StorageTypesOf(bucket))
             THEN /\ rv' = Ok(gs.outputs)
                  /\ pc' = "return"
                  /\ gs' = GetMetricStatisticsFrame
                  /\ ledger' = ledger
           ELSE LET input == GetMetricStatisticsInput(now, start_time, period.value,
                                 bucket.name, StorageTypesOf(bucket)[gs.i])
                IN  \/ /\ rv' = SendFailed(gs.outputs)
                       /\ pc' = "return"
                       /\ gs' = GetMetricStatisticsFrame
                       /\ ledger' = [Refused(ledger, "statistics")
                                      EXCEPT !.queries = Append(@, input)]
                    \/ \E output \in GetMetricStatisticsOutputs :
                         /\ gs' = [i |-> gs.i + 1, outputs |-> Append(gs.outputs, output)]
                         /\ ledger' = [Served(ledger, "statistics", FALSE)
                                        EXCEPT !.stats = Append(@, output),
                                               !.queries = Append(@, input)]
                         /\ UNCHANGED <<pc, rv>>

\* get_metric_statistics has returned to bucket_size: an error is returned
\* as it is (`?`), the outputs are summed.
BucketSizeResume ==
    /\ pc = "return"
    /\ stack # <<>>
    /\ Head(stack) = "bucket_size"
    /\ stack' = Tail(stack)
    /\ rv' = IF rv.ok THEN ForStats(rv.value, 0) ELSE rv
    /\ UNCHANGED <<entry, pc, ret, s3vars, cwvars, testvars, drivervars, ledger>>

\* The invoked function returns to the caller of the model.
Finish ==
    /\ pc = "return"
    /\ stack = <<>>
    /\ ret' = rv
    /\ pc' = "done"
    /\ UNCHANGED <<entry, stack, rv, s3vars, cwvars, testvars, drivervars, ledger>>

Next ==
    \/ SizeMultipartUploads
    \/ SizeMultipartUploadsResume
    \/ SizeParts
    \/ SizeObjectVersions
    \/ SizeCurrentObjects
    \/ ListMetrics
    \/ Finish

Spec == Init /\ [][Next]_vars

\* ------------------------------------------------------------- properties

\* The invoked function has returned to its caller.
Returned == pc = "done"

\* The pages of a listing, one after the other.
RECURSIVE Concat(_)
Concat(pages) == IF pages = <<>> THEN <<>> ELSE Head(pages) \o Concat(Tail(pages))

\* The sizes present on the versions listed that a selector counts.
CountedSize(selector) ==
    CASE selector = "All"        -> ledger.latest + ledger.other
      [] selector = "Current"    -> ledger.latest
      [] selector = "NonCurrent" -> ledger.other

\* C1 as the specification states it: whenever no request fails, every
\* paginated operation succeeds; list_metrics returns the pages' metrics in
\* page order and every size function the sum of the sizes of all the items
\* listed.  It does not hold: a page whose sizes sum below zero is an error,
\* and size_object_versions leaves out the versions its selector excludes.
C1_EveryItemCounted ==
    (Returned /\ ~ledger.failed) =>
        /\ ret.ok
        /\ ledger.more = {}
        /\ entry = "list_metrics" => ret.value = Concat(ledger.metrics)
        /\ entry = "size_current_objects" => ret.value = ledger.objects
        /\ entry = "size_object_versions" => ret.value = ledger.latest + ledger.other
        /\ entry \in {"size_parts", "size_multipart_uploads"} => ret.value = ledger.parts

\* C1, amended: whenever no request fails and on no page the sizes the
\* operation counts sum below zero, every paginated operation follows its
\* listing to the page that announces no continuation and succeeds;
\* list_metrics returns the concatenation of the pages' metrics in page order,
\* size_current_objects and size_parts the sum of the sizes of all items on
\* all pages, size_object_versions the sum of the sizes of all versions its
\* selector counts, and size_multipart_uploads the sum of the part sizes of
\* all uploads listed.
C1_PaginationComplete ==
    (Returned /\ ~ledger.failed /\ ~ledger.negative) =>
        /\ ret.ok
        /\ ledger.more = {}
        /\ ledger.unsized = 0
        /\ entry = "list_metrics" => ret.value = Concat(ledger.metrics)
        /\ entry = "size_current_objects" => ret.value = ledger.objects
        /\ entry = "size_object_versions" => ret.value = CountedSize(object_versions)
        /\ entry \in {"size_parts", "size_multipart_uploads"} => ret.value = ledger.parts

\* list_metrics has returned MaxPages pages of metrics, none of them empty.
C1_Witness ==
    /\ Returned
    /\ entry = "list_metrics"
    /\ ret.ok
    /\ Len(ledger.metrics) = MaxPages
    /\ \A i \in 1..Len(ledger.metrics) : ledger.metrics[i] # <<>>
    /\ Len(ret.value) >= MaxPages

\* C2: when a request of a paginated operation fails, the operation returns
\* that error and no value, whatever it had accumulated from the pages before.
C2_FailureDiscardsPartial ==
    (Returned /\ ledger.failed) => (~ret.ok /\ ret.error = "request")

\* size_current_objects failed on a later request, bytes having been listed.
C2_Witness ==
    /\ Returned
    /\ entry = "size_current_objects"
    /\ ledger.failed
    /\ ledger.objects > 0

\* C3: the size that size_object_versions returns is, under NonCurrent, the
\* sum of the sizes of exactly the versions not flagged latest, under All the
\* sum of the sizes of every version, and under Current the sum of the sizes
\* of exactly the versions flagged latest.
C3_VersionFilter ==
    (Returned /\ entry = "size_object_versions" /\ ret.ok) =>
        /\ object_versions = "NonCurrent" => ret.value = ledger.other
        /\ object_versions = "All" => ret.value = ledger.latest + ledger.other
        /\ object_versions = "Current" => ret.value = ledger.latest

\* Under NonCurrent a size was returned for pages holding bytes of versions
\* flagged latest and of versions not flagged latest.
C3_Witness ==
    /\ Returned
    /\ entry = "size_object_versions"
    /\ object_versions = "NonCurrent"
    /\ ret.ok
    /\ ledger.latest > 0
    /\ ledger.other > 0

\* C6: the size that size_multipart_uploads returns is the sum, over every
\* upload on every page of the upload listing, of the sizes of its parts on
\* every page of its part listing; an upload without parts is no error and
\* the uploads after it are sized all the same.
C6_MultipartUploads ==
    (Returned /\ entry = "size_multipart_uploads") =>
        /\ ret.ok => /\ ret.value = ledger.parts
                     /\ ledger.unsized = 0
                     /\ ledger.more = {}
        /\ (~ledger.failed /\ ~ledger.negative) => ret.ok

\* An upload turned out to have no part, a part of a later upload was listed,
\* and a size above zero was returned.
C6_Witness ==
    /\ Returned
    /\ entry = "size_multipart_uploads"
    /\ ret.ok
    /\ ledger.empty
    /\ ledger.resumed
    /\ ret.value > 0

\* --------------------------------------------------- CloudWatch bucket_size

\* bucket_size of the CloudWatch client, for a bucket as discovery hands it
\* over.
InitCW ==
    /\ entry = "bucket_size"
    /\ object_versions = "Current"
    /\ pc = entry
    /\ stack = <<>>
    /\ rv = Pending
    /\ ret = Pending
    /\ so = SizeObjectsFrame
    /\ mu = SizeMultipartUploadsFrame
    /\ sp = NoSizePartsFrame
    /\ ov = SizeObjectVersionsFrame
    /\ co = SizeCurrentObjectsFrame
    /\ lm = ListMetricsFrame
    /\ bucket \in Buckets
    /\ gs = GetMetricStatisticsFrame
    /\ provider = AnyResponse
    /\ sizes = NoSizes
    /\ client = MockClient
    /\ bk = BucketsFrame
    /\ du = DuFrame
    /\ main = MainFrame
    /\ \E k \in 1..Len(Clocks) : clock = Clocks[k]
    /\ ledger = NewLedger

NextCW ==
    \/ BucketSize
    \/ GetMetricStatistics
    \/ BucketSizeResume
    \/ Finish

SpecCW == InitCW /\ [][NextCW]_vars

\* ---------------------------------------------------------- test_size_objects

\* The selectors in the order test_size_objects runs them.
Tests == <<"All", "Current", "Multipart", "NonCurrent">>

\* test_size_objects: size_objects has returned under one selector; it is
\* called under the next one for the same bucket.
TestSizeObjects ==
    /\ pc = "done"
    /\ \E i \in 1..(Len(Tests) - 1) :
         /\ Tests[i] = object_versions
         /\ object_versions' = Tests[i + 1]
    /\ sizes' = [sizes EXCEPT ![object_versions] = ret]
    /\ ret' = Pending
    /\ rv' = Pending
    /\ pc' = "size_objects"
    /\ ledger' = NewLedger
    /\ UNCHANGED <<entry, stack, so, mu, sp, ov, co, cwvars, provider, drivervars>>

InitBucket ==
    /\ entry = "size_objects"
    /\ object_versions = Tests[1]
    /\ pc = entry
    /\ stack = <<>>
    /\ rv = Pending
    /\ ret = Pending
    /\ so = SizeObjectsFrame
    /\ mu = SizeMultipartUploadsFrame
    /\ sp = NoSizePartsFrame
    /\ ov = SizeObjectVersionsFrame
    /\ co = SizeCurrentObjectsFrame
    /\ lm = ListMetricsFrame
    /\ bucket = NoBucket
    /\ gs = GetMetricStatisticsFrame
    /\ provider \in GivenBuckets
    /\ sizes = NoSizes
    /\ client = MockClient
    /\ bk = BucketsFrame
    /\ du = DuFrame
    /\ main = MainFrame
    /\ clock = Head(Clocks)
    /\ ledger = NewLedger

NextBucket ==
    \/ SizeObjects
    \/ SizeObjectsResume
    \/ SizeMultipartUploads
    \/ SizeMultipartUploadsResume
    \/ SizeParts
    \/ SizeObjectVersions
    \/ SizeCurrentObjects
    \/ Finish
    \/ TestSizeObjects

SpecBucket == InitBucket /\ [][NextBucket]_vars

\* ------------------------------------------- properties of test_size_objects

\* size_objects has returned under the selector.
Tested(selector) ==
    \/ object_versions = selector /\ Returned
    \/ sizes[selector] # Pending

\* What size_objects returned under the selector.
SizeUnder(selector) == IF object_versions = selector THEN ret ELSE sizes[selector]

\* The sizes present on the parts of the bucket's uploads.
RECURSIVE PartsOf(_)
PartsOf(uploads) ==
    IF uploads = <<>> THEN 0 ELSE TotalSize(Head(uploads)) + PartsOf(Tail(uploads))

\* C4: for a bucket that holds object versions only, flagged in any way, the
\* size under Current plus the size under NonCurrent is the size under All.
\* (A bucket with uploads in progress is not such a bucket: All counts their
\* parts as well.)
C4_CurrentPlusNonCurrent ==
    ( /\ provider.uploads = <<>>
      /\ Tested("NonCurrent")
      /\ SizeUnder("All").ok /\ SizeUnder("Current").ok /\ SizeUnder("NonCurrent").ok )
    => SizeUnder("Current").value + SizeUnder("NonCurrent").value = SizeUnder("All").value

\* A bucket of versions only, some flagged latest and some not, was sized
\* under every selector, above zero under Current and under NonCurrent.
C4_Witness ==
    /\ provider.uploads = <<>>
    /\ Tested("NonCurrent")
    /\ SizeUnder("All").ok /\ SizeUnder("Current").ok /\ SizeUnder("NonCurrent").ok
    /\ SizeUnder("Current").value > 0
    /\ SizeUnder("NonCurrent").value > 0
    /\ provider.page_size < Len(provider.versions)

DataPoints(stats) == IF stats.datapoints = None THEN <<>> ELSE stats.datapoints[1]

\* The latest of the data points: the first of them in the order returned
\* if several carry the latest timestamp.
Latest(datapoints) ==
    datapoints[CHOOSE i \in DOMAIN datapoints :
                 \A j \in DOMAIN datapoints :
                    \/ datapoints[i].timestamp > datapoints[j].timestamp
                    \/ datapoints[i].timestamp = datapoints[j].timestamp /\ i <= j]

\* An average as whole bytes: its fraction dropped, nothing if below zero.
WholeBytes(average) == IF average.whole >= 0 THEN average.whole ELSE 0

\* Twice an average.
Doubled(average) == average.whole + average.whole + (IF average.half THEN 1 ELSE 0)

\* The whole bytes of the latest data point of every storage class that
\* returned data points.
RECURSIVE SumOfLatest(_)
SumOfLatest(outputs) ==
    IF outputs = <<>> THEN 0
    ELSE ( IF DataPoints(Head(outputs)) = <<>> THEN 0
           ELSE WholeBytes(Latest(DataPoints(Head(outputs))).average) )
         + SumOfLatest(Tail(outputs))

\* Twice the averages of the latest data point of every storage class.
RECURSIVE DoubledSumOfLatest(_)
DoubledSumOfLatest(outputs) ==
    IF outputs = <<>> THEN 0
    ELSE ( IF DataPoints(Head(outputs)) = <<>> THEN 0
           ELSE Doubled(Latest(DataPoints(Head(outputs))).average) )
         + DoubledSumOfLatest(Tail(outputs))

DistinctTimestamps(datapoints) ==
    \A i, j \in DOMAIN datapoints :
        i # j => datapoints[i].timestamp # datapoints[j].timestamp

\* The data point of the maximum timestamp.
MaxTimestamp(datapoints) ==
    CHOOSE d \in { datapoints[i] : i \in DOMAIN datapoints } :
        \A i \in DOMAIN datapoints : datapoints[i].timestamp <= d.timestamp

RECURSIVE SumOfMaxTimestamp(_)
SumOfMaxTimestamp(outputs) ==
    IF outputs = <<>> THEN 0
    ELSE ( IF DataPoints(Head(outputs)) = <<>> THEN 0
           ELSE WholeBytes(MaxTimestamp(DataPoints(Head(outputs))).average) )
         + SumOfMaxTimestamp(Tail(outputs))

\* C8: when the data points of every storage class carry distinct
\* timestamps, the size returned counts for each class the data point of the
\* maximum timestamp and no other, in whatever order they were returned.
C8_LatestDatapoint ==
    ( /\ Returned
      /\ ret.ok
      /\ \A i \in 1..Len(ledger.stats) : DistinctTimestamps(DataPoints(ledger.stats[i])) )
    => ret.value = SumOfMaxTimestamp(ledger.stats)

\* A class returned an older data point of 100 bytes before a later one of
\* 50.5 bytes, and 50 was the size.
C8_Witness ==
    /\ Returned
    /\ ret.ok
    /\ Len(ledger.stats) = 1
    /\ Len(DataPoints(ledger.stats[1])) = 2
    /\ DataPoints(ledger.stats[1])[1].timestamp < DataPoints(ledger.stats[1])[2].timestamp
    /\ DataPoints(ledger.stats[1])[1].average = F64(100, FALSE)
    /\ DataPoints(ledger.stats[1])[2].average = F64(50, TRUE)
    /\ ret.value = 50

\* C9 as the specification states it: a storage class whose query returned
\* no data point counts as zero and the next class is processed; it is no
\* error as long as some class of the bucket returned a data point.  The code
\* returns an error for the bucket as soon as a class returns an empty list.
C9_EmptyClassTolerated ==
    ( /\ Returned
      /\ ~ledger.failed
      /\ \E i \in 1..Len(ledger.stats) : DataPoints(ledger.stats[i]) # <<>> )
    => (ret.ok /\ ret.value = SumOfLatest(ledger.stats))

\* C10 as the specification states it: when every query for the storage
\* classes of the bucket returned no data point, the result is an error and
\* never a size of zero.  The code returns zero when every query returned no
\* list of data points at all.
C10_NoStatisticsIsError ==
    ( /\ Returned
      /\ ~ledger.failed
      /\ ledger.stats # <<>>
      /\ \A i \in 1..Len(ledger.stats) : DataPoints(ledger.stats[i]) = <<>> )
    => ~ret.ok

\* ------------------------------------------------------ S3 bucket discovery

\* The account holds at most MaxBuckets buckets.
MaxBuckets == 2

\* Bucket { name } of ListBucketsOutput: the name is an Option<String>.
BucketNameValues ==
    <<None, Some("a-bucket-name"), Some("another-bucket-name"), Some("test-bucket")>>

\* ListBucketsOutput { buckets }: at most MaxBuckets buckets, no two alike, in
\* any order.
ListBucketsOutputs ==
    UNION { { [buckets |-> [i \in 1..k |-> [name |-> BucketNameValues[s[i]]]]]
              : s \in { t \in [1..k -> 1..Len(BucketNameValues)] :
                          \A i, j \in 1..k : i # j => t[i] # t[j] } }
            : k \in 0..MaxBuckets }

\* GetBucketLocationOutput { location_constraint }: absent, the empty
\* constraint S3 reports for its original region, the legacy alias, or the
\* name of a region.
LocationConstraintValues ==
    <<None, Some(""), Some("EU"), Some("eu-west-1"), Some("us-west-2")>>

GetBucketLocationOutputs ==
    { [location_constraint |-> LocationConstraintValues[i]]
      : i \in 1..Len(LocationConstraintValues) }

\* The HTTP status of a HeadBucket response.
HeadBucketStatuses == {200, 403, 404}

\* BucketLocationConstraint::values(): the identifiers the provider
\* publishes, of which the model keeps three.
BucketLocationConstraintValues == {"EU", "eu-west-1", "us-west-2"}

\* The regions a Client may be configured with: two published ones and the
\* region of a custom endpoint.
ClientRegions == {"eu-west-1", "us-west-2", "custom-region"}

\* Client { bucket_name, region }.
Clients ==
    { [bucket_name |-> n, region |-> r]
      : n \in {None, Some("a-bucket-name")}, r \in ClientRegions }

\* .filter_map(|bucket| bucket.name.clone()) of list_buckets.
RECURSIVE FilterMapName(_)
FilterMapName(buckets) ==
    IF buckets = <<>> THEN <<>>
    ELSE ( IF IsSome(Head(buckets).name) THEN <<Head(buckets).name[1]>> ELSE <<>> )
         \o FilterMapName(Tail(buckets))

\* Not the code: the configured bucket name is ignored.
RetainAll(bucket_names, bucket_name) == bucket_names

\* bucket_names.retain(|b| b == bucket_name), if a bucket name is configured.
Retain(bucket_names, bucket_name) ==
    IF IsSome(bucket_name)
      THEN SelectSeq(bucket_names, LAMBDA b : b = bucket_name[1])
      ELSE bucket_names

\* The match of get_bucket_location on output.location_constraint().
LocationOf(location_constraint) ==
    CASE location_constraint = Some("EU") -> "eu-west-1"
      [] location_constraint = None       -> "us-east-1"
      [] OTHER                            -> location_constraint[1]

\* is_custom_client_region:
\* BucketLocationConstraint::values().contains(&self.region.name())
IsCustomClientRegion(region) == region \in BucketLocationConstraintValues

\* Not the code: a probe that takes every response for a success.
HeadBucketAlways(status) == TRUE

\* head_bucket: output.is_ok(), which a 2xx response is.
HeadBucket(status) == status = 200

\* Bucket { name, region: Some(region), storage_types: None }.
S3Bucket(name, region) == [name |-> name, region |-> Some(region), storage_types |-> None]

\* The head of `for bucket in &bucket_names`: candidate i is looked at, or
\* the loop is over and buckets returns Ok(buckets).
ForBucket(bucket_names, i, buckets) ==
    IF i <= Len(bucket_names)
      THEN /\ bk' = [bucket_names |-> bucket_names, i |-> i, region |-> "",
                     buckets |-> buckets]
           /\ pc' = "get_bucket_location"
           /\ UNCHANGED rv
      ELSE /\ bk' = BucketsFrame
           /\ pc' = "return"
           /\ rv' = Ok(buckets)

\* buckets of the S3 backend, up to the first candidate: list_buckets and the
\* bucket name filter.
S3Buckets ==
    /\ pc = "s3::buckets"
    /\ UNCHANGED <<entry, stack, ret, s3vars, cwvars, testvars, client, du, main, clock>>
    /\ \/ /\ rv' = SendFailed(bk.buckets)
          /\ pc' = "return"
          /\ bk' = BucketsFrame
          /\ ledger' = Refused(ledger, "buckets")
       \/ \E output \in ListBucketsOutputs :
            LET bucket_names == Retain(FilterMapName(output.buckets), client.bucket_name)
            IN  /\ ledger' = [Served(ledger, "buckets", FALSE)
                               EXCEPT !.listed = output.buckets]
                /\ ForBucket(bucket_names, 1, <<>>)

\* One candidate of buckets: get_bucket_location and the region filter.
GetBucketLocation ==
    /\ pc = "get_bucket_location"
    /\ UNCHANGED <<entry, stack, ret, s3vars, cwvars, testvars, client, du, main, clock>>
    /\ \/ /\ rv' = SendFailed(bk.buckets)
          /\ pc' = "return"
          /\ bk' = BucketsFrame
          /\ ledger' = Refused(ledger, "location")
       \/ \E output \in GetBucketLocationOutputs :
            LET region == LocationOf(output.location_constraint)
            IN  /\ ledger' = [Served(ledger, "location", FALSE)
                               EXCEPT !.located =
                                 Append(@, [name |-> bk.bucket_names[bk.i],
                                            location_constraint |->
                                              output.location_constraint])]
                /\ IF region = client.region \/ IsCustomClientRegion(client.region)
                     THEN /\ bk' = [bk EXCEPT !.region = region]
                          /\ pc' = "head_bucket"
                          /\ UNCHANGED rv
                     ELSE ForBucket(bk.bucket_names, bk.i + 1, bk.buckets)

\* One candidate of buckets that passed the region filter: the access probe,
\* and the push of the bucket if the probe succeeded.
S3HeadBucket ==
    /\ pc = "head_bucket"
    /\ UNCHANGED <<entry, stack, ret, s3vars, cwvars, testvars, client, du, main, clock>>
    /\ \E status \in HeadBucketStatuses :
         /\ ledger' = [Served(ledger, "probe", FALSE)
                        EXCEPT !.probed =
                          Append(@, [name |-> bk.bucket_names[bk.i], status |-> status])]
         /\ IF ~HeadBucket(status)
              THEN ForBucket(bk.bucket_names, bk.i + 1, bk.buckets)
              ELSE ForBucket(bk.bucket_names, bk.i + 1,
                             Append(bk.buckets, S3Bucket(bk.bucket_names[bk.i], bk.region)))

\* ---------------------------------------------- CloudWatch bucket discovery

\* The `for dimension in dimensions` loop of From<Vec<Metric>>: the value of
\* the last dimension of the given name, or the value held before the loop.
RECURSIVE DimensionValue(_, _, _)
DimensionValue(dimensions, dimension_name, value) ==
    IF dimensions = <<>> THEN value
    ELSE DimensionValue(Tail(dimensions), dimension_name,
                        IF Head(dimensions).name = dimension_name
                          THEN Head(dimensions).value
                          ELSE value)

\* Not the code: bucket_metrics.insert(name, vec![storage_type]), which
\* forgets the storage types the bucket had.
EntryPushOverwrites(bucket_metrics, name, storage_type) ==
    IF name \in DOMAIN bucket_metrics
      THEN [bucket_metrics EXCEPT ![name] = <<storage_type>>]
      ELSE bucket_metrics @@ (name :> <<storage_type>>)

\* bucket_metrics.entry(name).or_insert_with(StorageTypes::new)
\*     .push(storage_type)
EntryPush(bucket_metrics, name, storage_type) ==
    IF name \in DOMAIN bucket_metrics
      THEN [bucket_metrics EXCEPT ![name] = Append(@, storage_type)]
      ELSE bucket_metrics @@ (name :> <<storage_type>>)

\* From<Vec<Metric>> for BucketMetrics, from the HashMap built so far: a
\* metric without dimensions is skipped.
RECURSIVE BucketMetricsFrom(_, _)
BucketMetricsFrom(metrics, bucket_metrics) ==
    IF metrics = <<>> THEN bucket_metrics
    ELSE LET dimensions == Head(metrics).dimensions
         IN  IF dimensions = <<>>
               THEN BucketMetricsFrom(Tail(metrics), bucket_metrics)
               ELSE LET name         == DimensionValue(dimensions, "BucketName", "")
                        storage_type == DimensionValue(dimensions, "StorageType", "")
                    IN  BucketMetricsFrom(Tail(metrics),
                                          EntryPush(bucket_metrics, name, storage_type))

\* HashMap::new()
NewHashMap == [name \in {} |-> <<>>]

\* BucketMetrics::bucket_names: the keys of the HashMap, in one of the orders
\* its iterator may yield them.
BucketNames(bucket_metrics) ==
    { s \in [1..Cardinality(DOMAIN bucket_metrics) -> DOMAIN bucket_metrics] :
        \A i, j \in DOMAIN s : i # j => s[i] # s[j] }

\* Bucket { name, region: None, storage_types: Some(storage_types) }.
CloudWatchBucket(name, storage_types) ==
    [name |-> name, region |-> None, storage_types |-> Some(storage_types)]

\* buckets of the CloudWatch backend calls list_metrics.
CloudWatchBuckets ==
    /\ pc = "cloudwatch::buckets"
    /\ stack' = <<"cloudwatch::buckets">> \o stack
    /\ lm' = ListMetricsFrame
    /\ pc' = "list_metrics"
    /\ UNCHANGED <<entry, rv, ret, s3vars, bucket, gs, testvars, drivervars, ledger>>

\* list_metrics has returned to buckets: an error is returned as it is (`?`),
\* the metrics are converted and one Bucket is pushed per bucket name.
CloudWatchBucketsResume ==
    /\ pc = "return"
    /\ stack # <<>>
    /\ Head(stack) = "cloudwatch::buckets"
    /\ stack' = Tail(stack)
    /\ IF rv.ok
         THEN LET metrics == BucketMetricsFrom(rv.value, NewHashMap)
              IN  \E bucket_names \in BucketNames(metrics) :
                    rv' = Ok([i \in 1..Len(bucket_names) |->
                               CloudWatchBucket(bucket_names[i], metrics[bucket_names[i]])])
         ELSE rv' = rv
    /\ UNCHANGED <<entry, pc, ret, s3vars, cwvars, testvars, drivervars, ledger>>

\* buckets of either backend is called.
InitDiscovery ==
    /\ entry \in {"s3::buckets", "cloudwatch::buckets"}
    /\ object_versions = "Current"
    /\ pc = entry
    /\ stack = <<>>
    /\ rv = Pending
    /\ ret = Pending
    /\ so = SizeObjectsFrame
    /\ mu = SizeMultipartUploadsFrame
    /\ sp = NoSizePartsFrame
    /\ ov = SizeObjectVersionsFrame
    /\ co = SizeCurrentObjectsFrame
    /\ lm = ListMetricsFrame
    /\ bucket = NoBucket
    /\ gs = GetMetricStatisticsFrame
    /\ provider = AnyResponse
    /\ sizes = NoSizes
    /\ IF entry = "s3::buckets" THEN client \in Clients ELSE client = MockClient
    /\ bk = BucketsFrame
    /\ du = DuFrame
    /\ main = MainFrame
    /\ clock = Head(Clocks)
    /\ ledger = NewLedger

NextDiscovery ==
    \/ S3Buckets
    \/ GetBucketLocation
    \/ S3HeadBucket
    \/ CloudWatchBuckets
    \/ ListMetrics
    \/ CloudWatchBucketsResume
    \/ Finish

SpecDiscovery == InitDiscovery /\ [][NextDiscovery]_vars

\* ------------------------------------------ properties of S3 bucket discovery

\* The names of a list of buckets.
Names(buckets) == [i \in 1..Len(buckets) |-> buckets[i].name]

\* C11: buckets of the S3 backend returns a bucket only if its resolved home
\* region equals the client's region or the client's region is none of the
\* published ones: a bucket whose home region differs from a published
\* client region is never returned.
C11_RegionFilter ==
    Returned /\ ret.ok
    => \A i \in 1..Len(ret.value) :
         \/ ret.value[i].region = Some(client.region)
         \/ client.region \notin BucketLocationConstraintValues

\* C12: is_custom_client_region is true exactly when the client's region is
\* none of the published identifiers, and false for every published one.
C12_CustomIffUnpublished ==
    IsCustomClientRegion(client.region)
    <=> client.region \notin BucketLocationConstraintValues

\* buckets of the S3 backend has returned.
S3Discovered == Returned /\ entry = "s3::buckets"

\* The probes that were answered with a success status.
Accessible(probed) == SelectSeq(probed, LAMBDA p : p.status \in 200..299)

\* C13: buckets of the S3 backend returns exactly the candidates whose access
\* probe succeeded, in the order they were probed, which is the order of the
\* listing; a failed probe (403, 404) drops that bucket only, and if no
\* listing or location request failed the call returns Ok.
C13_ProbeFilter ==
    S3Discovered
    => /\ ret.ok => Names(ret.value) = Names(Accessible(ledger.probed))
       /\ ~ledger.failed => ret.ok
       /\ \A i, j \in 1..Len(ledger.probed) :
            i < j => \E m, n \in 1..Len(ledger.listed) :
                       /\ m < n
                       /\ ledger.listed[m].name = Some(ledger.probed[i].name)
                       /\ ledger.listed[n].name = Some(ledger.probed[j].name)

\* Two candidates were probed, one probe failed and the call returned the
\* other bucket.
C13_Witness ==
    /\ S3Discovered
    /\ ret.ok
    /\ Len(ledger.probed) = 2
    /\ Len(ret.value) = 1
    /\ \E i \in 1..2 : ledger.probed[i].status = 403

\* buckets of either backend has returned.
Discovered == Returned /\ entry \in {"s3::buckets", "cloudwatch::buckets"}

\* C14: buckets never returns a partial set.  If the bucket listing, the
\* location request of a candidate or a page of the metric listing failed,
\* buckets returns the error of the request and no bucket; if none of them
\* failed it returns Ok, whatever the access probes answered.
C14_NoPartialSet ==
    Discovered
    => /\ ledger.failed => ~ret.ok /\ ret.error = "request" /\ ret.value = 0
       /\ ~ledger.failed => ret.ok

\* The location request of the second candidate failed after the first
\* candidate had passed its probe, and buckets returned.
C14_Witness ==
    /\ Discovered
    /\ ledger.failed
    /\ "location" \in ledger.asked
    /\ Len(Accessible(ledger.probed)) = 1
    /\ ~ret.ok

\* The region a raw location constraint stands for: the absent and the empty
\* constraint stand for us-east-1, the legacy alias EU for eu-west-1, every
\* other value for itself.
Translated(location_constraint) ==
    CASE location_constraint \in {None, Some("")} -> "us-east-1"
      [] location_constraint = Some("EU")          -> "eu-west-1"
      [] OTHER                                     -> location_constraint[1]

\* C15: get_bucket_location translates the null or empty location constraint
\* to us-east-1 and the legacy alias EU to eu-west-1, and returns every other
\* value unchanged: the region resolved for the candidate being probed is the
\* translation of the constraint returned for it.
C15_LocationTranslation ==
    pc = "head_bucket"
    => bk.region = Translated(ledger.located[Len(ledger.located)].location_constraint)

\* ------------------------------------------- properties of the accumulation

\* The S3 sizing functions that convert the signed sum of a page.
SizingFunctions == {"size_current_objects", "size_object_versions", "size_parts"}

\* C16: in size_current_objects, size_object_versions and size_parts, if the
\* signed sizes counted on a page sum to a negative amount, the function
\* returns the error of the conversion and no total: the amount is neither
\* wrapped nor clamped into the unsigned total.
C16_NegativeIsError ==
    Returned /\ entry \in SizingFunctions /\ ledger.negative
    => /\ ~ret.ok
       /\ ret.value = 0
       /\ ret.error \in {"object size", "version size", "part sizes"}

\* size_object_versions under All was served a page whose sizes sum below
\* zero after a page it had counted, and returned the error.
C16_Witness ==
    /\ Returned
    /\ entry = "size_object_versions"
    /\ object_versions = "All"
    /\ ledger.negative
    /\ ledger.latest + ledger.other >= 1
    /\ ret.error = "version size"

\* ---------------------------------------------------------------- du driver

\* du runs on a Box<dyn BucketSizer>: buckets and bucket_size return whatever
\* an implementation of the trait may return.  In this section a size is a
\* whole number of units of 2^62 bytes, so that the 64 bits of total_size are
\* kept: a u64 holds less than U64Units units.
U64Units == 4

\* The sizes bucket_size may return, in units.
U64Values == 0..(U64Units - 1)

\* The lists of buckets that buckets may return: at most MaxBuckets buckets of
\* different names.
DuBuckets ==
    UNION { { [i \in 1..k |-> [NoBucket EXCEPT !.name = BucketNameValues[s[i]][1]]]
              : s \in { t \in [1..k -> 2..Len(BucketNameValues)] :
                          \A i, j \in 1..k : i # j => t[i] # t[j] } }
            : k \in 0..MaxBuckets }

\* The outcome of an addition: a value, or a panic.
Value(n) == [panic |-> FALSE, value |-> n]

Panic == [panic |-> TRUE, value |-> 0]

\* `total_size += size` on a u64: a sum that does not fit panics in a build
\* with overflow checks and wraps in a build without.
AddAssignU64(total_size, size, debug_assertions) ==
    IF total_size + size < U64Units THEN Value(total_size + size)
    ELSE IF debug_assertions THEN Panic
    ELSE Value((total_size + size) % U64Units)

\* The line du prints for a bucket, and the line of the total: the size is
\* the number handed to humansize.
Line(size, name) == [size |-> size, bucket |-> name]

\* The head of `for bucket in buckets` of du: bucket i is sized, or the loop
\* is over, the total is printed and du returns Ok(()), written Ok(0).
ForDu(frame) ==
    IF frame.i <= Len(frame.buckets)
      THEN /\ du' = frame
           /\ pc' = "du::bucket_size"
           /\ UNCHANGED rv
      ELSE /\ du' = [frame EXCEPT !.printed = Append(@, Line(frame.total_size, "."))]
           /\ pc' = "return"
           /\ rv' = Ok(0)

\* du, up to the first bucket: buckets is awaited, an error is returned as it
\* is (`?`).
Du ==
    /\ pc = "du"
    /\ UNCHANGED <<entry, stack, ret, s3vars, cwvars, testvars, client, bk, main, clock>>
    /\ \/ /\ rv' = Err("request")
          /\ pc' = "return"
          /\ ledger' = Refused(ledger, "buckets")
          /\ UNCHANGED du
       \/ \E buckets \in DuBuckets :
            /\ ledger' = Served(ledger, "buckets", FALSE)
            /\ ForDu([du EXCEPT !.buckets = buckets, !.i = 1, !.total_size = 0])

\* One turn of `for bucket in buckets` of du: bucket_size is awaited, its size
\* added to total_size and the line of the bucket printed.
DuBucketSize ==
    /\ pc = "du::bucket_size"
    /\ UNCHANGED <<entry, stack, ret, s3vars, cwvars, testvars, client, bk, main, clock>>
    /\ \/ /\ rv' = Err("request")
          /\ pc' = "return"
          /\ ledger' = Refused(ledger, "size")
          /\ UNCHANGED du
       \/ \E size \in U64Values :
            LET total_size == AddAssignU64(du.total_size, size, du.debug_assertions)
            IN  /\ ledger' = [Served(ledger, "size", FALSE)
                               EXCEPT !.sized = Append(@, size)]
                /\ IF total_size.panic
                     THEN /\ pc' = "panic"
                          /\ UNCHANGED <<rv, du>>
                     ELSE ForDu([du EXCEPT
                                  !.total_size = total_size.value,
                                  !.i = @ + 1,
                                  !.printed = Append(@, Line(size, du.buckets[du.i].name))])

\* du is called, in a build with overflow checks or in one without.
InitDu ==
    /\ entry = "du"
    /\ object_versions = "Current"
    /\ pc = entry
    /\ stack = <<>>
    /\ rv = Pending
    /\ ret = Pending
    /\ so = SizeObjectsFrame
    /\ mu = SizeMultipartUploadsFrame
    /\ sp = NoSizePartsFrame
    /\ ov = SizeObjectVersionsFrame
    /\ co = SizeCurrentObjectsFrame
    /\ lm = ListMetricsFrame
    /\ bucket = NoBucket
    /\ gs = GetMetricStatisticsFrame
    /\ provider = AnyResponse
    /\ sizes = NoSizes
    /\ client = MockClient
    /\ bk = BucketsFrame
    /\ \E b \in BOOLEAN : du = [DuFrame EXCEPT !.debug_assertions = b]
    /\ main = MainFrame
    /\ clock = Head(Clocks)
    /\ ledger = NewLedger

NextDu ==
    \/ Du
    \/ DuBucketSize
    \/ Finish

SpecDu == InitDu /\ [][NextDu]_vars

\* ------------------------------------------------------- properties of du

\* The sum of a list of sizes, as a number of unbounded width.
RECURSIVE Sum(_)
Sum(s) == IF s = <<>> THEN 0 ELSE Head(s) + Sum(Tail(s))

\* C17: no size accumulator wraps silently.  For the grand total of du: if
\* the sizes of the buckets add up to more than a u64 holds, du does not
\* return Ok and prints no total (the claim says the same of the signed sum
\* of a page and of the running total of a bucket).
C17_NoSilentWrap ==
    Returned /\ entry = "du" /\ Sum(ledger.sized) >= U64Units
    => /\ ~ret.ok
       /\ \A i \in 1..Len(du.printed) : du.printed[i].bucket # "."

\* ------------------------------------------------ properties of pagination

\* What the invoked function is to return when it counts every page it was
\* served.
Total ==
    CASE entry = "list_metrics"         -> Concat(ledger.metrics)
      [] entry = "size_current_objects" -> ledger.objects
      [] entry = "size_object_versions" -> CountedSize(object_versions)
      [] OTHER                          -> ledger.parts

\* C18: a page that carries no item but announces a continuation does not
\* end a pagination.  Whenever such a page was served, no request failed and
\* no page summed below zero, the function went on to the page that announces
\* no continuation and returned what all the pages served amount to, the
\* items of the later pages included.
C18_EmptyPageTolerated ==
    Returned /\ ledger.hollow # {} /\ ~ledger.failed /\ ~ledger.negative
    => /\ ret.ok
       /\ ledger.more = {}
       /\ ret.value = Total

\* size_current_objects was served a page of no object that announced a
\* continuation, then a page with an object, and returned its size.
C18_Witness ==
    /\ Returned
    /\ entry = "size_current_objects"
    /\ "objects" \in ledger.late
    /\ ret.ok
    /\ ret.value >= 1

\* The paginated functions under a runtime that polls the future of the call
\* until it is ready and a provider that answers every request: a step that
\* can be taken is taken.
SpecFair == Spec /\ WF_vars(Next)

\* C19: every pagination stops at the first response that reports no further
\* cursor: no page is requested of a listing that is over, and, the provider
\* reporting no further cursor on page MaxPages at the latest, the function
\* returns.
C19_Terminates == [](~ledger.overrun) /\ <>Returned

\* size_object_versions was served a page of no version that announced a
\* continuation, then pages with a version up to the one that announced
\* none, and returned.
C19_Witness ==
    /\ Returned
    /\ entry = "size_object_versions"
    /\ object_versions = "All"
    /\ "versions" \in ledger.late
    /\ ledger.more = {}
    /\ ret.ok

\* ------------------------------------ properties of CloudWatch discovery

\* The value of the dimension of the given name that a metric carries.
Dimension(metric, dimension_name) ==
    LET i == CHOOSE i \in 1..Len(metric.dimensions) :
                 metric.dimensions[i].name = dimension_name
    IN  metric.dimensions[i].value

\* The elements of a sequence.
Range(s) == { s[i] : i \in 1..Len(s) }

\* C20: buckets of the CloudWatch backend returns exactly one Bucket for each
\* BucketName value that occurs in the metric catalogue, and the storage
\* types of that bucket contain the StorageType value of every metric of the
\* catalogue that carries its name.
C20_OneBucketPerName ==
    Returned /\ entry = "cloudwatch::buckets" /\ ret.ok
    => LET catalogue == Range(Concat(ledger.metrics))
       IN  /\ Range(Names(ret.value)) = { Dimension(metric, "BucketName") : metric \in catalogue }
           /\ \A i, j \in 1..Len(ret.value) :
                ret.value[i].name = ret.value[j].name => i = j
           /\ \A metric \in catalogue : \E i \in 1..Len(ret.value) :
                /\ ret.value[i].name = Dimension(metric, "BucketName")
                /\ Dimension(metric, "StorageType") \in Range(ret.value[i].storage_types[1])

\* The catalogue listed two metrics of one bucket, of different storage
\* types, on different pages, and a metric of another bucket; buckets
\* returned two buckets.
C20_Witness ==
    /\ Returned
    /\ entry = "cloudwatch::buckets"
    /\ ret.ok
    /\ Len(ret.value) = 2
    /\ Len(ledger.metrics) = 2
    /\ \E i \in 1..2 : Range(ret.value[i].storage_types[1]) = Range(StorageTypes)
    /\ \A p \in 1..2 : \E i \in 1..Len(ledger.metrics[p]) :
         Dimension(ledger.metrics[p][i], "BucketName") = "a-bucket-name"

\* C21: the storage types that buckets of the CloudWatch backend records for
\* a bucket are distinct: no label occurs twice, even when the catalogue
\* lists the same bucket name and storage type more than once.
C21_DistinctStorageTypes ==
    Returned /\ entry = "cloudwatch::buckets" /\ ret.ok
    => \A b \in 1..Len(ret.value) :
         LET storage_types == ret.value[b].storage_types[1]
         IN  \A i, j \in 1..Len(storage_types) :
               storage_types[i] = storage_types[j] => i = j

\* ------------------------------------------- From<Vec<Metric>> on any catalogue

\* list_metrics returns at most MaxMetrics metrics to buckets in this section.
MaxMetrics == 2

\* Metric { dimensions } with any of the two dimensions missing: both there,
\* the storage type missing, the bucket name missing, no dimension at all.
MetricKinds ==
    << Metric("a-bucket-name", "StandardStorage"),
       Metric("another-bucket-name", "StandardIAStorage"),
       [dimensions |-> << [name |-> "BucketName", value |-> "a-bucket-name"] >>],
       [dimensions |-> << [name |-> "StorageType", value |-> "StandardStorage"] >>],
       [dimensions |-> <<>>] >>

\* The catalogues list_metrics may return.
Catalogues ==
    UNION { { [i \in 1..k |-> MetricKinds[s[i]]] : s \in [1..k -> 1..Len(MetricKinds)] }
            : k \in 0..MaxMetrics }

\* list_metrics has returned a catalogue to buckets of the CloudWatch backend,
\* which converts it.
InitMetrics ==
    /\ entry = "cloudwatch::buckets"
    /\ object_versions = "Current"
    /\ pc = "return"
    /\ stack = <<"cloudwatch::buckets">>
    /\ \E catalogue \in Catalogues :
         /\ rv = Ok(catalogue)
         /\ ledger = [NewLedger EXCEPT !.asked = {"metrics"}, !.metrics = <<catalogue>>]
    /\ ret = Pending
    /\ so = SizeObjectsFrame
    /\ mu = SizeMultipartUploadsFrame
    /\ sp = NoSizePartsFrame
    /\ ov = SizeObjectVersionsFrame
    /\ co = SizeCurrentObjectsFrame
    /\ lm = ListMetricsFrame
    /\ bucket = NoBucket
    /\ gs = GetMetricStatisticsFrame
    /\ provider = AnyResponse
    /\ sizes = NoSizes
    /\ client = MockClient
    /\ bk = BucketsFrame
    /\ du = DuFrame
    /\ main = MainFrame
    /\ clock = Head(Clocks)

NextMetrics ==
    \/ CloudWatchBucketsResume
    \/ Finish

SpecMetrics == InitMetrics /\ [][NextMetrics]_vars

\* The names of the dimensions a metric carries.
DimensionNames(metric) == { metric.dimensions[i].name : i \in 1..Len(metric.dimensions) }

\* The metrics that carry both the bucket name and the storage type.
Complete(metrics) ==
    { metric \in metrics : {"BucketName", "StorageType"} \subseteq DimensionNames(metric) }

\* C22: a metric that is missing the bucket name or the storage type is
\* skipped by metric discovery: every bucket returned has the name of a
\* metric that carries both dimensions, and every storage type of a bucket is
\* that of a metric of its name that carries both.
C22_IncompleteMetricSkipped ==
    Returned /\ entry = "cloudwatch::buckets" /\ ret.ok
    => LET catalogue == Complete(Range(Concat(ledger.metrics)))
       IN  \A b \in 1..Len(ret.value) :
             /\ \E metric \in catalogue :
                  Dimension(metric, "BucketName") = ret.value[b].name
             /\ \A storage_type \in Range(ret.value[b].storage_types[1]) :
                  \E metric \in catalogue :
                    /\ Dimension(metric, "BucketName") = ret.value[b].name
                    /\ Dimension(metric, "StorageType") = storage_type

\* ------------------------------------ properties of the bucket name filter

\* The names present on the buckets listed, in listing order.
ListedNames ==
    LET named == SelectSeq(ledger.listed, LAMBDA b : b.name # None)
    IN  [i \in 1..Len(named) |-> named[i].name[1]]

\* C23: with a bucket name configured, every bucket that buckets of the S3
\* backend returns has that name, and only buckets of that name are looked
\* at; with none configured, every bucket listed with a name is looked at, so
\* none is excluded on account of its name.
C23_NameFilter ==
    S3Discovered /\ ret.ok
    => IF IsSome(client.bucket_name)
         THEN /\ \A i \in 1..Len(ret.value) : ret.value[i].name = client.bucket_name[1]
              /\ Names(ledger.located)
                   = SelectSeq(ListedNames, LAMBDA n : n = client.bucket_name[1])
         ELSE Names(ledger.located) = ListedNames

\* A bucket name was configured, two buckets were listed, and buckets
\* returned the one of that name.
C23_Witness ==
    /\ S3Discovered
    /\ ret.ok
    /\ IsSome(client.bucket_name)
    /\ Len(ListedNames) = 2
    /\ Len(ret.value) = 1

\* --------------------------------------------------------------------- main

\* Our fallback default region if we fail to find a region in the
\* environment.
FALLBACK_REGION == "us-east-1"

\* The builds: the features compiled in.
Builds == {{"cloudwatch", "s3"}, {"cloudwatch"}, {"s3"}}

\* DEFAULT_MODE: "cloudwatch" if that feature is compiled in, else "s3".
DEFAULT_MODE(features) == IF "cloudwatch" \in features THEN "cloudwatch" ELSE "s3"

\* VALID_MODES: the modes of the features compiled in.
VALID_MODES(features) == features

\* What a run may find on its command line: --region, --endpoint and --mode
\* are each given or not (BUCKET, UNIT and OBJECT_VERSIONS are left out: they
\* decide neither the region nor whether main goes on).
Arguments ==
    [region   : {None, Some("ap-south-1")},
     endpoint : {None, Some("http://127.0.0.1:9000")},
     mode     : {None, Some("cloudwatch"), Some("s3")}]

\* What a run may find in its environment: each of the two region variables
\* is unset, set to nothing, or set to a region.
Environments ==
    [AWS_REGION         : {None, Some(""), Some("eu-west-1")},
     AWS_DEFAULT_REGION : {None, Some(""), Some("us-west-2")}]

\* possibilities.iter().find_map(|region| region.as_ref().ok()): the first
\* variable that is set.
RECURSIVE FindMapOk(_)
FindMapOk(possibilities) ==
    IF possibilities = <<>> THEN None
    ELSE IF IsSome(Head(possibilities)) THEN Head(possibilities)
    ELSE FindMapOk(Tail(possibilities))

\* DEFAULT_REGION: the first of AWS_REGION and AWS_DEFAULT_REGION that is
\* set, else FALLBACK_REGION.
DEFAULT_REGION(env) ==
    LET possibilities == <<env.AWS_REGION, env.AWS_DEFAULT_REGION>>
        region == FindMapOk(possibilities)
    IN  IF IsSome(region) THEN region[1] ELSE FALLBACK_REGION

\* The value of an argument built with .env and .default_value: what the
\* command line gives, else what the variable holds, else the default.
ValueOf(argument, variable, default_value) ==
    IF IsSome(argument) THEN argument[1]
    ELSE IF IsSome(variable) THEN variable[1]
    ELSE default_value

\* parse_args: the matches, or the usage error of an --endpoint in a build
\* without the s3 feature or of a --mode that is not among VALID_MODES.
ParseArgs(features, argv, env) ==
    IF \/ IsSome(argv.endpoint) /\ "s3" \notin features
       \/ IsSome(argv.mode) /\ argv.mode[1] \notin VALID_MODES(features)
      THEN Err("usage")
      ELSE Ok([ENDPOINT |-> argv.endpoint,
               MODE     |-> ValueOf(argv.mode, None, DEFAULT_MODE(features)),
               REGION   |-> ValueOf(argv.region, env.AWS_REGION, DEFAULT_REGION(env))])

\* ClientMode::from_str, on a mode that parse_args has let through.
FromStr(s) == IF s = "cloudwatch" THEN "CloudWatch" ELSE "S3"

\* Not the code: an endpoint is accepted under any mode.
EndpointAllowedAlways(mode) == TRUE

\* `if mode == ClientMode::S3` under `if matches.contains_id("ENDPOINT")`.
EndpointAllowed(mode) == mode = "S3"

\* main, up to the ClientConfig: the command line is parsed, the mode read,
\* and the region set from REGION, unless an endpoint was supplied and the
\* mode is not S3: then main prints the error and exits with 1.
Main ==
    /\ pc = "main"
    /\ UNCHANGED <<entry, stack, rv, ret, s3vars, cwvars, testvars, client, bk, du, clock, ledger>>
    /\ LET matches == ParseArgs(main.features, main.argv, main.env)
       IN  IF ~matches.ok
             THEN /\ main' = [main EXCEPT !.stderr = <<"usage">>, !.exit = Some(2)]
                  /\ pc' = "exit"
             ELSE LET mode == FromStr(matches.value.MODE)
                  IN  IF /\ "s3" \in main.features
                         /\ IsSome(matches.value.ENDPOINT)
                         /\ ~EndpointAllowed(mode)
                        THEN /\ main' = [main EXCEPT
                                  !.mode = Some(mode),
                                  !.stderr = <<"Error: Endpoint supplied but client mode is not S3">>,
                                  !.exit = Some(1)]
                             /\ pc' = "exit"
                        ELSE /\ main' = [main EXCEPT
                                  !.mode = Some(mode),
                                  !.region = Some(matches.value.REGION)]
                             /\ pc' = "Client::new"

\* Client::new(config).await: the client of the mode is made in the region
\* of the config, and main goes on to du.
ClientNew ==
    /\ pc = "Client::new"
    /\ main' = [main EXCEPT !.client = Some([mode |-> main.mode[1], region |-> main.region[1]])]
    /\ pc' = "du"
    /\ UNCHANGED <<entry, stack, rv, ret, s3vars, cwvars, testvars, client, bk, du, clock, ledger>>

\* main is run, in any build, with any command line and any environment.
InitMain ==
    /\ entry = "main"
    /\ object_versions = "Current"
    /\ pc = entry
    /\ stack = <<>>
    /\ rv = Pending
    /\ ret = Pending
    /\ so = SizeObjectsFrame
    /\ mu = SizeMultipartUploadsFrame
    /\ sp = NoSizePartsFrame
    /\ ov = SizeObjectVersionsFrame
    /\ co = SizeCurrentObjectsFrame
    /\ lm = ListMetricsFrame
    /\ bucket = NoBucket
    /\ gs = GetMetricStatisticsFrame
    /\ provider = AnyResponse
    /\ sizes = NoSizes
    /\ client = MockClient
    /\ bk = BucketsFrame
    /\ \E b \in BOOLEAN : du = [DuFrame EXCEPT !.debug_assertions = b]
    /\ \E features \in Builds, argv \in Arguments, env \in Environments :
         main = [MainFrame EXCEPT !.features = features, !.argv = argv, !.env = env]
    /\ clock = Head(Clocks)
    /\ ledger = NewLedger

NextMain ==
    \/ Main
    \/ ClientNew
    \/ Du
    \/ DuBucketSize
    \/ Finish

SpecMain == InitMain /\ [][NextMain]_vars

\* ------------------------------------------------------ properties of main

\* The region the documented order gives: --region, else the first of
\* AWS_DEFAULT_REGION and AWS_REGION that is set to something, else us-east-1.
DocumentedRegion(argv, env) ==
    LET documented == <<env.AWS_DEFAULT_REGION, env.AWS_REGION>>
        nonempty == SelectSeq(documented, LAMBDA v : v # None /\ v # Some(""))
    IN  IF IsSome(argv.region) THEN argv.region[1]
        ELSE IF nonempty # <<>> THEN nonempty[1][1]
        ELSE "us-east-1"

\* C24: the region main uses is the --region argument if given, else the
\* first non-empty value among AWS_DEFAULT_REGION and AWS_REGION in that
\* order, else us-east-1.
C24_RegionPrecedence ==
    IsSome(main.region) => main.region[1] = DocumentedRegion(main.argv, main.env)

\* C26: when an endpoint is supplied and the mode selected is not S3, main
\* exits with an error; no client is made and no request is issued.
C26_EndpointNeedsS3 ==
    /\ pc # "main"
    /\ IsSome(main.argv.endpoint)
    /\ main.mode = Some("CloudWatch")
    => /\ pc = "exit"
       /\ main.exit = Some(1)
       /\ main.stderr # <<>>
       /\ main.client = None
       /\ ledger = NewLedger

\* main was given an endpoint under the CloudWatch mode, and has exited.
C26_Witness ==
    /\ pc = "exit"
    /\ IsSome(main.argv.endpoint)
    /\ main.mode = Some("CloudWatch")
    /\ main.exit = Some(1)

\* ------------------------------------- properties of the statistics window

\* C25: every statistics query covers a window of 24 hours that ends at the
\* time of the call: its end time is now, its start time 86,400 seconds
\* before its end time, and its period one day.
C25_OneDayWindow ==
    \A i \in 1..Len(ledger.queries) :
        /\ ledger.queries[i].end_time = clock
        /\ ledger.queries[i].end_time - ledger.queries[i].start_time = 86400
        /\ ledger.queries[i].period = 86400

\* ---------------------------------------------- properties of failed requests

\* Every operation of the two backends: the sizing functions and list_metrics,
\* bucket_size of the CloudWatch backend, and buckets of both backends.
InitEngine == Init \/ InitCW \/ InitDiscovery

NextEngine == Next \/ NextCW \/ NextDiscovery

SpecEngine == InitEngine /\ [][NextEngine]_vars

\* C27: nothing is retried.  Once a listing, statistics or location request
\* has failed, the operation sends no request of any kind, the failed one
\* included, and what it returns is the error.
C27_NeverRetries ==
    /\ ~ledger.pursued
    /\ ledger.failed => pc \in {"return", "done"} /\ ~rv.ok
    /\ Returned /\ ledger.failed => ~ret.ok

\* size_multipart_uploads had a request fail after the parts of an upload
\* had been asked for, and returned the error.
C27_Witness ==
    /\ Returned
    /\ entry = "size_multipart_uploads"
    /\ ledger.failed
    /\ {"uploads", "parts"} \subseteq ledger.asked
    /\ ~ret.ok

\* --------------------------------------------------- properties of du's output

\* The lines of the buckets sized so far: the size bucket_size returned and
\* the name of the bucket, in the order buckets returned them.
BucketLines ==
    [i \in 1..Len(ledger.sized) |-> Line(ledger.sized[i], du.buckets[i].name)]

\* C28: du prints one line per bucket, in the order of discovery, then a
\* total that is the sum of the sizes printed; when buckets or a bucket_size
\* fails, du returns that error, prints no total and prints for no bucket a
\* size that bucket_size did not return.
C28_LinesThenTotal ==
    Returned /\ entry = "du"
    => IF ret.ok
         THEN /\ Len(ledger.sized) = Len(du.buckets)
              /\ du.printed = Append(BucketLines, Line(Sum(ledger.sized), "."))
         ELSE /\ ret = Err("request")
              /\ ledger.failed
              /\ du.printed = BucketLines

\* ------------------------------------------------ properties of the cursors

\* C29: a pagination follows its cursors.  Every request of a listing carries
\* the cursors the page before it returned, the first request none; a page
\* is requested once the page before it has been served, never twice, and
\* never after the listing is over.
C29_CursorFollowing ==
    /\ ~ledger.strayed
    /\ ~ledger.overrun
    /\ \A listing \in Paginated :
         listing \notin ledger.asked => ledger.handed[listing] = NoCursors(listing)

\* size_object_versions under All returned more than the versions of one
\* page can weigh: it was served a second page on the markers of the first.
C29_Witness ==
    /\ Returned
    /\ entry = "size_object_versions"
    /\ object_versions = "All"
    /\ ret.ok
    /\ ret.value > MaxPerPage
    /\ ~ledger.strayed

\* ------------------------------------------ properties of the sizes counted

\* Some item of the list reports a size below zero.
SomeNegative(items) ==
    \E i \in 1..Len(items) : IsSome(items[i].size) /\ items[i].size[1] < 0

\* C30: every size the provider reports is checked by itself.  When
\* size_objects returns a size under a selector, no version that the selector
\* counts reported a size below zero, whatever the other versions of its
\* page reported.
C30_EverySizeChecked ==
    \A selector \in {"All", "Current", "NonCurrent"} :
        Tested(selector) /\ SizeUnder(selector).ok
        => ~SomeNegative(Counted(provider.versions, selector))

====
